---- MODULE Spec2Model ----
(***************************************************************************)
(* Model of labuf's LookaheadBuffer (src/src/lib.rs): a FallibleIterator   *)
(* wrapped together with a VecDeque of items pulled ahead of consumption.  *)
(*                                                                         *)
(* Encoding of values: an item is a positive integer, Ok(None) is 0 and an *)
(* error value of the source is a negative integer.  The source is a       *)
(* script of responses (items and errors) followed by end-of-sequence      *)
(* forever; `iter` is the number of script entries already handed out.     *)
(* LookaheadBuffer is generic in I::Item and I::Error and never inspects   *)
(* either, so the i-th response of a script is the item i or the error -i: *)
(* all values of a run are distinct and any mix-up of two of them shows.   *)
(***************************************************************************)
EXTENDS Integers, Sequences, FiniteSets, TLC

\* ---- bounds of the model ------------------------------------------------
MaxLen == 4          \* longest source script
MaxN == 3            \* largest const-generic N of peek_multiple(_mut)
MaxPeek == 2         \* largest ordinary offset passed to peek_n(_mut)
UsizeBits == 3       \* width of usize in the model
MaxCloneLen == 2     \* longest source script of the runs with a cloned buffer

None == 0
UsizeMax == 2^UsizeBits - 1

\* script, iter      the source and how far it has been read
\* queue             LookaheadBuffer::queue
\* overflow_checks   whether the build panics on arithmetic overflow
\* consumed          the items handed out by next(), oldest first
\* last, prev        the last call (with its result) and the one before it
\* other             the second buffer once clone() has made one: the one of
\*                   the two the caller is not operating on at the moment
VARIABLES script, iter, queue, overflow_checks, consumed, last, prev, other

vars == <<script, iter, queue, overflow_checks, consumed, last, prev, other>>

\* no second buffer exists
NoOther == [id |-> "none", iter |-> 0, queue |-> << >>, consumed |-> << >>]

\* the i-th response is Ok(Some(i)) or, for i in F, Err(-i)
Scripts ==
    UNION {{[i \in 1..k |-> IF i \in F THEN -i ELSE i] : F \in SUBSET (1..k)} :
           k \in 0..MaxLen}

\* the offsets the callers of the model pass to peek_n / peek_n_mut
PeekArgs == (0..MaxPeek) \cup {UsizeMax}

\* ---- the source: FallibleIterator::next -------------------------------
\* Ok(Some(x)) / Err(e) while the script lasts, Ok(None) afterwards.
iter_next(p) ==
    IF p < Len(script)
    THEN [val |-> script[p + 1], iter |-> p + 1]
    ELSE [val |-> None, iter |-> p]

\* ---- usize arithmetic ---------------------------------------------------
saturating_sub(a, b) == IF a >= b THEN a - b ELSE 0

wrapping_add(a, b) == (a + b) % (2^UsizeBits)

\* faulty variant of get: the offset is taken one element too far
get_off_by_one(q, i) == IF i + 1 < Len(q) THEN q[i + 2] ELSE None

\* VecDeque::get
get(q, i) == IF i < Len(q) THEN q[i + 1] ELSE None

\* ---- try_ensure ---------------------------------------------------------
\* k = iterations of `for _ in 0..n.saturating_sub(len)` still to run,
\* c = calls of iter.next() made so far in this invocation.
RECURSIVE ensure_loop(_, _, _, _)
ensure_loop(q, p, k, c) ==
    IF k = 0
    THEN [queue |-> q, iter |-> p, calls |-> c, err |-> 0]
    ELSE LET r == iter_next(p) IN
         IF r.val < 0
         THEN [queue |-> q, iter |-> r.iter, calls |-> c + 1, err |-> r.val]
         ELSE IF r.val > 0
         THEN ensure_loop(Append(q, r.val), r.iter, k - 1, c + 1)
         ELSE [queue |-> q, iter |-> r.iter, calls |-> c + 1, err |-> 0]

\* faulty variant of try_ensure: pulls one item more than the requested depth
try_ensure_eager(q, p, n) == ensure_loop(q, p, saturating_sub(n + 1, Len(q)), 0)

\* faulty variant of try_ensure: a failed pull rolls the queue back
try_ensure_rollback(q, p, n) ==
    LET e == ensure_loop(q, p, saturating_sub(n, Len(q)), 0) IN
    IF e.err # 0 THEN [e EXCEPT !.queue = q] ELSE e

\* faulty variant of try_ensure: never asks the source again once the queue is
\* non-empty but short
try_ensure_once(q, p, n) ==
    IF Len(q) > 0 THEN [queue |-> q, iter |-> p, calls |-> 0, err |-> 0]
    ELSE ensure_loop(q, p, saturating_sub(n, Len(q)), 0)

\* faulty variant of try_ensure: keeps asking the source after it signalled
\* end-of-sequence, for every remaining iteration of the loop
try_ensure_no_break(q, p, n) ==
    LET e == ensure_loop(q, p, saturating_sub(n, Len(q)), 0) IN
    IF e.err = 0 /\ Len(e.queue) < n
    THEN [e EXCEPT !.calls = saturating_sub(n, Len(q))]
    ELSE e

\* faulty variant of try_ensure: a failed pull is retried once within the call
try_ensure_retry(q, p, n) ==
    LET e == ensure_loop(q, p, saturating_sub(n, Len(q)), 0) IN
    IF e.err # 0
    THEN ensure_loop(e.queue, e.iter, saturating_sub(n, Len(e.queue)), e.calls)
    ELSE e

\* faulty variant of try_ensure: pulled items are pushed to the front
try_ensure_push_front(q, p, n) ==
    LET e == ensure_loop(q, p, saturating_sub(n, Len(q)), 0) IN
    [e EXCEPT !.queue = SubSeq(e.queue, Len(q) + 1, Len(e.queue)) \o q]

try_ensure(q, p, n) == ensure_loop(q, p, saturating_sub(n, Len(q)), 0)

\* ---- records of calls ---------------------------------------------------
\* calls = invocations of the source's next() during the call, ensured =
\* those of them made inside try_ensure; qPre, iPre, cPre = the queue, the
\* source position and the consumed items when the call began.
Call(op, n, kind, val, pack, taken, calls) ==
    [op |-> op, n |-> n, kind |-> kind, val |-> val, pack |-> pack,
     taken |-> taken, calls |-> calls, ensured |-> 0,
     qPre |-> queue, iPre |-> iter, cPre |-> consumed, oPre |-> other,
     retIter |-> 0, retQueue |-> << >>]

\* a call all of whose source invocations were made by try_ensure
ViaEnsure(c) == [c EXCEPT !.ensured = c.calls]

\* what is remembered of the call before the last one: the result of a
\* peek / peek_n, and only that some other call was made otherwise
Brief(c) ==
    IF c.op \in {"peek", "peek_n"}
    THEN [op |-> c.op, n |-> c.n, kind |-> c.kind, val |-> c.val]
    ELSE [op |-> "other", n |-> 0, kind |-> "ok", val |-> 0]

\* the buffer can still be called: the process has not run into undefined
\* behaviour and the buffer has not been consumed by destructure(self)
Running == last.kind # "ub" /\ last.op # "destructure"

\* ---- LookaheadBuffer::new ----------------------------------------------
Init ==
    /\ script \in Scripts
    /\ iter = 0
    /\ queue = << >>
    /\ overflow_checks \in BOOLEAN
    /\ consumed = << >>
    /\ last = [op |-> "new", n |-> 0, kind |-> "ok", val |-> 0, pack |-> << >>,
               taken |-> 0, calls |-> 0, ensured |-> 0,
               qPre |-> << >>, iPre |-> 0, cPre |-> << >>, oPre |-> NoOther,
               retIter |-> 0, retQueue |-> << >>]
    /\ prev = [op |-> "other", n |-> 0, kind |-> "ok", val |-> 0]
    /\ other = NoOther

\* ---- peek_n / peek_n_mut / peek / peek_mut ------------------------------
\* `n + 1` on usize: with overflow checks the addition panics at
\* n = usize::MAX, without them it wraps to 0.
PeekAt(op, n) ==
    /\ Running
    /\ prev' = Brief(last)
    /\ IF n = UsizeMax /\ overflow_checks
       THEN /\ last' = Call(op, n, "panic", 0, << >>, 0, 0)
            /\ UNCHANGED <<script, iter, queue, overflow_checks, consumed, other>>
       ELSE LET e == try_ensure(queue, iter, wrapping_add(n, 1)) IN
            /\ queue' = e.queue
            /\ iter' = e.iter
            /\ last' = IF e.err # 0
                       THEN ViaEnsure(Call(op, n, "err", e.err, << >>, 0, e.calls))
                       ELSE ViaEnsure(Call(op, n, "ok", get(e.queue, n), << >>, 0, e.calls))
            /\ UNCHANGED <<script, overflow_checks, consumed, other>>

peek_n == \E n \in PeekArgs : PeekAt("peek_n", n)

peek_n_mut == \E n \in PeekArgs : PeekAt("peek_n_mut", n)

peek == PeekAt("peek", 0)

peek_mut == PeekAt("peek_mut", 0)

\* ---- next / advance -----------------------------------------------------
\* faulty variant of next: pops the back of the queue
next_pop_back(q, p) ==
    IF Len(q) > 0
    THEN [val |-> q[Len(q)], queue |-> SubSeq(q, 1, Len(q) - 1), iter |-> p, calls |-> 0, ensured |-> 0]
    ELSE LET r == iter_next(p) IN
         [val |-> r.val, queue |-> q, iter |-> r.iter, calls |-> 1, ensured |-> 0]

\* faulty variant of next: always pulls from the source and queues what it pulled
next_via_queue(q, p) ==
    LET r == iter_next(p)
        q2 == IF r.val > 0 THEN Append(q, r.val) ELSE q IN
    IF r.val < 0 THEN [val |-> r.val, queue |-> q, iter |-> r.iter, calls |-> 1, ensured |-> 0]
    ELSE IF Len(q2) > 0
    THEN [val |-> Head(q2), queue |-> Tail(q2), iter |-> r.iter, calls |-> 1, ensured |-> 0]
    ELSE [val |-> None, queue |-> q2, iter |-> r.iter, calls |-> 1, ensured |-> 0]

\* faulty variant of next: an empty queue is reported as the end of the sequence
next_queue_only(q, p) ==
    IF Len(q) > 0
    THEN [val |-> Head(q), queue |-> Tail(q), iter |-> p, calls |-> 0, ensured |-> 0]
    ELSE [val |-> None, queue |-> q, iter |-> p, calls |-> 0, ensured |-> 0]

\* faulty variant of next: an empty queue is refilled through try_ensure
next_via_ensure(q, p) ==
    LET e == try_ensure(q, p, 1) IN
    IF e.err # 0
    THEN [val |-> e.err, queue |-> e.queue, iter |-> e.iter,
          calls |-> e.calls, ensured |-> e.calls]
    ELSE IF Len(e.queue) > 0
    THEN [val |-> Head(e.queue), queue |-> Tail(e.queue), iter |-> e.iter,
          calls |-> e.calls, ensured |-> e.calls]
    ELSE [val |-> None, queue |-> e.queue, iter |-> e.iter,
          calls |-> e.calls, ensured |-> e.calls]

\* the private next(): pop_front, or one direct pull when the queue is empty
\* (calls of the source made here are not made inside try_ensure)
next(q, p) ==
    IF Len(q) > 0
    THEN [val |-> Head(q), queue |-> Tail(q), iter |-> p, calls |-> 0, ensured |-> 0]
    ELSE LET r == iter_next(p) IN
         [val |-> r.val, queue |-> q, iter |-> r.iter, calls |-> 1, ensured |-> 0]

advance ==
    /\ Running
    /\ prev' = Brief(last)
    /\ LET r == next(queue, iter) IN
       /\ queue' = r.queue
       /\ iter' = r.iter
       /\ consumed' = IF r.val > 0 THEN Append(consumed, r.val) ELSE consumed
       /\ last' = [(IF r.val < 0
                   THEN Call("advance", 0, "err", r.val, << >>, r.val, r.calls)
                   ELSE Call("advance", 0, "ok", 0, << >>, r.val, r.calls))
                  EXCEPT !.ensured = r.ensured]
    /\ UNCHANGED <<script, overflow_checks, other>>

\* ---- peek_multiple ------------------------------------------------------
\* A slot of the result array holds a reference into the queue: the
\* 1-based position of the element it refers to, or None.
\* faulty variant of ref_get: the last queued element is never handed out
ref_get_short(q, i) == IF i + 1 < Len(q) THEN i + 1 ELSE None

ref_get(q, i) == IF i < Len(q) THEN i + 1 ELSE None

peek_multiple ==
    \E N \in 0..MaxN :
        /\ Running
        /\ prev' = Brief(last)
        /\ LET e == try_ensure(queue, iter, N) IN
           /\ queue' = e.queue
           /\ iter' = e.iter
           /\ last' = IF e.err # 0
                      THEN ViaEnsure(Call("peek_multiple", N, "err", e.err, << >>, 0, e.calls))
                      ELSE ViaEnsure(Call("peek_multiple", N, "ok", 0,
                                [i \in 1..N |-> ref_get(e.queue, i - 1)], 0, e.calls))
        /\ UNCHANGED <<script, overflow_checks, consumed, other>>

\* ---- peek_multiple_mut --------------------------------------------------
\* `for x in self.queue.range_mut(..)`: x = position of the next element,
\* which is also the number of iter.next() calls on the slot iterator.
\* Running past the last slot reaches unwrap_unchecked on None.
RECURSIVE fill_loop(_, _, _)
fill_loop(pack, q, x) ==
    IF x > Len(q) THEN [ub |-> FALSE, pack |-> pack]
    ELSE IF x > Len(pack) THEN [ub |-> TRUE, pack |-> pack]
    ELSE fill_loop([pack EXCEPT ![x] = x], q, x + 1)

fill(q, N) == fill_loop([i \in 1..N |-> None], q, 1)

\* What an execution that ran past the last slot may hand back when it
\* does not crash: the slots as filled so far (the excess writes had no
\* visible effect), or the last slot overwritten by a later element.
UbPacks(q, N) ==
    {fill(q, N).pack} \cup
    {[fill(q, N).pack EXCEPT ![N] = r] : r \in IF N > 0 THEN (N + 1)..Len(q) ELSE {}}

peek_multiple_mut ==
    \E N \in 0..MaxN :
        /\ Running
        /\ prev' = Brief(last)
        /\ LET e == try_ensure(queue, iter, N)
               f == fill(e.queue, N) IN
           /\ queue' = e.queue
           /\ iter' = e.iter
           /\ IF e.err # 0
              THEN last' = ViaEnsure(Call("peek_multiple_mut", N, "err", e.err, << >>, 0, e.calls))
              ELSE IF ~f.ub
              THEN last' = ViaEnsure(Call("peek_multiple_mut", N, "ok", 0, f.pack, 0, e.calls))
              ELSE \/ last' = ViaEnsure(Call("peek_multiple_mut", N, "ub", 0, f.pack, 0, e.calls))
                   \/ \E g \in UbPacks(e.queue, N) :
                        last' = ViaEnsure(Call("peek_multiple_mut", N, "ok", 0, g, 0, e.calls))
        /\ UNCHANGED <<script, overflow_checks, consumed, other>>

\* ---- destructure --------------------------------------------------------
\* faulty variant of destructure: the residual queue is dropped
destructure_source_only(q, p) == [iter |-> p, queue |-> << >>]

\* let Self { queue, iter } = self; (iter, queue)
destructure_parts(q, p) == [iter |-> p, queue |-> q]

destructure ==
    /\ Running
    /\ prev' = Brief(last)
    /\ LET d == destructure_parts(queue, iter) IN
       last' = [Call("destructure", 0, "ok", 0, << >>, 0, 0)
                EXCEPT !.retIter = d.iter, !.retQueue = d.queue]
    /\ UNCHANGED <<script, iter, queue, overflow_checks, consumed, other>>

Next ==
    \/ peek_n
    \/ peek_n_mut
    \/ peek
    \/ peek_mut
    \/ peek_multiple
    \/ peek_multiple_mut
    \/ advance
    \/ destructure

Spec == Init /\ [][Next]_vars

\* ---- Clone for LookaheadBuffer ------------------------------------------
\* faulty variant of clone: the clone starts with an empty queue
clone_without_queue(q, p) == [queue |-> << >>, iter |-> p]

\* Self { queue: self.queue.clone(), iter: self.iter.clone() }: the copy of
\* the queue and the copy of the source, which stands where the source stands
clone_parts(q, p) == [queue |-> q, iter |-> p]

\* The new buffer becomes `other`.  Nothing of what the original consumed
\* before is left for the clone to produce: its consumed items start out
\* as the original's.
clone ==
    /\ Running
    /\ other.id = "none"
    /\ prev' = Brief(last)
    /\ LET c == clone_parts(queue, iter) IN
       /\ other' = [id |-> "clone", iter |-> c.iter, queue |-> c.queue,
                    consumed |-> consumed]
       /\ last' = [Call("clone", 0, "ok", 0, << >>, 0, 0)
                   EXCEPT !.retIter = c.iter, !.retQueue = c.queue]
    /\ UNCHANGED <<script, iter, queue, overflow_checks, consumed>>

\* The caller turns to the other of its two buffers: from here on the
\* methods are called on it, and the buffer used so far rests in `other`.
turn_to_other ==
    /\ Running
    /\ other.id # "none"
    /\ prev' = Brief(last)
    /\ iter' = other.iter
    /\ queue' = other.queue
    /\ consumed' = other.consumed
    /\ other' = [id |-> IF other.id = "clone" THEN "original" ELSE "clone",
                 iter |-> iter, queue |-> queue, consumed |-> consumed]
    /\ last' = [Call("turn", 0, "ok", 0, << >>, 0, 0)
                EXCEPT !.qPre = other.queue, !.iPre = other.iter,
                       !.cPre = other.consumed, !.oPre = other']
    /\ UNCHANGED <<script, overflow_checks>>

NextClone ==
    \/ Next
    \/ clone
    \/ turn_to_other

\* the runs with a clone: shorter sources, and a build without overflow
\* checks (the build plays no part in cloning)
InitClone ==
    /\ Init
    /\ Len(script) <= MaxCloneLen
    /\ overflow_checks = FALSE

SpecClone == InitClone /\ [][NextClone]_vars

\* ----------------------------------------------------------------------
\* Properties
\* ----------------------------------------------------------------------
FailureFree == \A i \in 1..Len(script) : script[i] > 0

\* the responses the source has not handed out yet
Unread == SubSeq(script, iter + 1, Len(script))

\* the item at 1-based position k of a failure-free source, None past its end
ItemAt(k) == IF k <= Len(script) THEN script[k] ELSE None

PeekOps == {"peek", "peek_mut", "peek_n", "peek_n_mut"}

WindowOps == {"peek_multiple", "peek_multiple_mut"}

\* the item a slot of the last result array refers to
SlotItem(i) ==
    IF last.pack[i] = None THEN None
    ELSE IF last.pack[i] <= Len(queue) THEN queue[last.pack[i]]
    ELSE -1

\* the number of items consumed before the last call
ConsumedBefore ==
    IF last.op = "advance" /\ last.taken > 0 THEN Len(consumed) - 1 ELSE Len(consumed)

\* C1 (invariant I2): on a failure-free source, in every reachable state
\* the items already consumed, then the queue front to back, then the
\* items the source has not produced yet, are exactly the source sequence.
C1_OrderPreserved ==
    FailureFree => consumed \o queue \o Unread = script

\* C1 witness: all three parts are non-empty at once.
C1_Witness ==
    /\ FailureFree
    /\ Len(consumed) > 0
    /\ Len(queue) > 1
    /\ Len(Unread) > 0

\* C2: on a failure-free source every advance() consumes the next item of
\* the source sequence in order, and once all items are consumed every
\* advance() and peek() reports no item, for ever.
C2_AdvanceInOrder ==
    FailureFree =>
        /\ consumed = SubSeq(script, 1, Len(consumed))
        /\ last.op = "advance" =>
              /\ last.kind = "ok"
              /\ last.taken = ItemAt(ConsumedBefore + 1)
        /\ (last.op = "peek" /\ consumed = script) =>
              /\ last.kind = "ok"
              /\ last.val = None

\* C2 witness: the whole sequence was consumed by advance() calls alone
\* (nothing was ever queued) and a further advance() reported no item.
C2_Witness ==
    /\ FailureFree
    /\ Len(script) = MaxLen
    /\ consumed = script
    /\ last.op = "advance"
    /\ last.taken = None
    /\ last.calls = 1

\* C3 as stated: on a failure-free source, for every n, peek_n(n) returns
\* the item the (n+1)-th following consuming call returns, i.e. the item n
\* places after the consumed ones, or no item when fewer than n+1
\* unconsumed items remain; peek() returns what peek_n(0) returns.
C3_PeekNTotal ==
    (FailureFree /\ last.op \in {"peek", "peek_n"}) =>
        /\ last.kind = "ok"
        /\ last.val = ItemAt(Len(consumed) + last.n + 1)

\* C3, what holds of the code: the same, except that the call ends without
\* a return value in the overflow case of C19 (n = usize::MAX in a build
\* with overflow checks); every call that returns returns the right item.
C3_PeekNValue ==
    (FailureFree /\ last.op \in {"peek", "peek_n"}) =>
        /\ last.kind \in {"ok", "panic"}
        /\ last.kind = "panic" => last.n = UsizeMax
        /\ last.kind = "ok" => last.val = ItemAt(Len(consumed) + last.n + 1)
        /\ last.op = "peek" => last.n = 0 /\ last.kind = "ok"

\* C3 witness: after something was consumed, a peek_n at a positive
\* offset found an item that had to be pulled.
C3_Witness ==
    /\ FailureFree
    /\ last.op = "peek_n"
    /\ last.n = 2
    /\ last.val > 0
    /\ last.calls > 0
    /\ Len(consumed) > 0

\* the last two calls were peek_n with the same offset
RepeatedPeekN ==
    /\ prev.op = "peek_n"
    /\ last.op = "peek_n"
    /\ prev.n = last.n

\* C4 as stated: a repeated peek_n(n) returns the identical result and
\* its second call never invokes the source, also when the first call
\* ended because the source signalled end-of-sequence.  (Stated here for
\* failure-free sources and calls that return, so that what refutes it is
\* neither a failure of the source nor the overflow of n + 1.)
C4_Original ==
    (FailureFree /\ RepeatedPeekN /\ prev.kind = "ok" /\ last.kind = "ok") =>
        /\ last.val = prev.val
        /\ last.calls = 0

\* C4 as amended: when the first peek_n(n) did not fail, the repeated call
\* returns the identical result; it invokes the source not at all when the
\* first call returned an item, and exactly once (answered end-of-sequence
\* again) when the first call returned no item after asking for n+1 items.
C4_RepeatedPeek ==
    (RepeatedPeekN /\ prev.kind = "ok") =>
        /\ last.kind = "ok"
        /\ last.val = prev.val
        /\ last.qPre = queue
        /\ last.val > 0 => last.calls = 0
        /\ (last.val = None /\ last.n < UsizeMax) =>
              /\ last.calls = 1
              /\ last.iPre = Len(script)
              /\ iter = Len(script)

\* C4 witness: both cases of a repeated peek_n are seen; here the second
\* call after an end-of-sequence answer.
C4_Witness ==
    /\ RepeatedPeekN
    /\ prev.kind = "ok"
    /\ last.val = None
    /\ last.n = 1
    /\ Len(queue) = 1
    /\ last.calls = 1

\* C5: on a failure-free source with k unconsumed items peek_multiple<N>
\* returns N slots; slot i holds the item at offset i for i < min(k, N)
\* and no item for i >= k: present slots first, absent slots after them.
C5_WindowContiguous ==
    (FailureFree /\ last.op = "peek_multiple") =>
        /\ last.kind = "ok"
        /\ Len(last.pack) = last.n
        /\ \A i \in 1..Len(last.pack) :
              SlotItem(i) = ItemAt(Len(consumed) + i)
        /\ \A i, j \in 1..Len(last.pack) :
              (i < j /\ last.pack[i] = None) => last.pack[j] = None

\* C5 witness: fewer items remain than slots were asked for, after a
\* consuming call (k = 2 < N = 3).
C5_Witness ==
    /\ FailureFree
    /\ last.op = "peek_multiple"
    /\ last.n = 3
    /\ Len(consumed) > 0
    /\ Len(script) - Len(consumed) = 2
    /\ last.pack[2] # None
    /\ last.pack[3] = None

\* the items among the responses iPre+1 .. iter-1, i.e. those handed out
\* by the source during the last call before its final response
PulledBeforeLast == SubSeq(script, last.iPre + 1, iter - 1)

\* the source yields a0, then fails, then yields a1
A0FailA1 ==
    /\ Len(script) >= 3
    /\ script[1] > 0
    /\ script[2] < 0
    /\ script[3] > 0

\* C6: when a pull fails inside a peek the call returns the source's error
\* unchanged and the queue is its previous contents followed by exactly
\* the items pulled before the failure.  On the source a0, fail, a1:
\* peek_n(1) on a fresh buffer fails and leaves the queue [a0], and a
\* peek_n(0) after a failed peek_n succeeds from the queue, returns its
\* front and does not invoke the source.
C6_FailureKeepsPrefix ==
    /\ (last.op \in PeekOps \cup WindowOps /\ last.kind = "err") =>
          /\ iter > last.iPre
          /\ last.val = script[iter]
          /\ last.val < 0
          /\ \A i \in 1..Len(PulledBeforeLast) : PulledBeforeLast[i] > 0
          /\ queue = last.qPre \o PulledBeforeLast
          /\ last.calls = iter - last.iPre
    /\ (A0FailA1 /\ last.op = "peek_n" /\ last.n = 1
          /\ last.iPre = 0 /\ last.qPre = << >>) =>
          /\ last.kind = "err"
          /\ last.val = script[2]
          /\ queue = <<script[1]>>
    /\ (prev.op = "peek_n" /\ prev.kind = "err" /\ last.op = "peek_n"
          /\ last.n = 0 /\ Len(last.qPre) > 0) =>
          /\ last.kind = "ok"
          /\ last.val = Head(last.qPre)
          /\ last.calls = 0
          /\ queue = last.qPre
          /\ iter = last.iPre

\* C6 witness: a0, fail, a1; peek_n(1) failed with the queue left as [a0]
\* and the following peek_n(0) returned a0.
C6_Witness ==
    /\ A0FailA1
    /\ consumed = << >>
    /\ prev = [op |-> "peek_n", n |-> 1, kind |-> "err", val |-> script[2]]
    /\ last.op = "peek_n"
    /\ last.n = 0
    /\ last.val = script[1]
    /\ queue = <<script[1]>>
    /\ iter = 2

\* C7 as stated: peek_multiple_mut<N> always returns, with exactly the N
\* slots peek_multiple<N> gives: slot i refers to queue element i if it
\* exists and is absent otherwise, present slots refer to distinct
\* elements, also when the queue already holds more than N items.
C7_MutSameSlots ==
    (last.op = "peek_multiple_mut" /\ last.kind # "err") =>
        /\ last.kind = "ok"
        /\ Len(last.pack) = last.n
        /\ \A i \in 1..Len(last.pack) : last.pack[i] = ref_get(queue, i - 1)
        /\ \A i, j \in 1..Len(last.pack) :
              (i # j /\ last.pack[i] # None) => last.pack[i] # last.pack[j]

\* C8: peek_n(0) (or peek()) that returned, followed immediately by
\* advance(): the item, or the absence of an item, the peek reported is
\* what the consuming call removes and returns.
C8_PeekThenAdvance ==
    (prev.op \in {"peek", "peek_n"} /\ prev.n = 0 /\ prev.kind = "ok"
        /\ last.op = "advance") =>
        /\ last.kind = "ok"
        /\ last.taken = prev.val
        /\ prev.val > 0 => (last.calls = 0 /\ consumed[Len(consumed)] = prev.val)
        /\ prev.val = None => Len(last.qPre) = 0

\* C8 witness: a peek_n(0) reported an item that had been pulled by an
\* earlier, deeper peek, and advance() consumed that item.
C8_Witness ==
    /\ prev.op = "peek_n"
    /\ prev.n = 0
    /\ prev.val > 0
    /\ last.op = "advance"
    /\ last.taken = prev.val
    /\ Len(queue) > 0
    /\ Len(consumed) > 1

\* the lookahead depth the last call needed (n+1 for a peek at offset n,
\* N for a window of N slots)
Depth ==
    IF last.op \in PeekOps THEN last.n + 1
    ELSE IF last.op \in WindowOps THEN last.n
    ELSE 0

\* C9: construction makes no pull, and a peek that needs depth d with q
\* items buffered invokes the source at most max(0, d - q) times, hence
\* not at all when q >= d.
C9_Lazy ==
    /\ last.op = "new" => (last.calls = 0 /\ iter = 0 /\ queue = << >>)
    /\ last.op \in PeekOps \cup WindowOps =>
          /\ last.calls <= saturating_sub(Depth, Len(last.qPre))
          /\ iter - last.iPre <= last.calls
          /\ Len(queue) <= IF Len(last.qPre) > Depth THEN Len(last.qPre) ELSE Depth
          /\ Len(last.qPre) >= Depth => (last.calls = 0 /\ iter = last.iPre)

\* C9 witness: a peek that found part of its depth buffered pulled only
\* the missing items.
C9_Witness ==
    /\ last.op = "peek_multiple"
    /\ last.n = 3
    /\ Len(last.qPre) = 2
    /\ last.calls = 1
    /\ Len(queue) = 3

\* C10: advance() on a non-empty queue invokes the source zero times,
\* succeeds, removes and returns the front element and leaves the rest of
\* the queue unchanged in order; on an empty queue it invokes the source
\* exactly once and passes through the item, the end-of-sequence or the
\* error; in neither case is anything appended to the queue.
C10_AdvanceFrame ==
    last.op = "advance" =>
        IF Len(last.qPre) > 0
        THEN /\ last.calls = 0
             /\ last.kind = "ok"
             /\ last.taken = Head(last.qPre)
             /\ queue = Tail(last.qPre)
             /\ iter = last.iPre
        ELSE /\ last.calls = 1
             /\ queue = << >>
             /\ IF last.iPre < Len(script)
                THEN /\ iter = last.iPre + 1
                     /\ last.taken = script[iter]
                     /\ last.kind = IF script[iter] < 0 THEN "err" ELSE "ok"
                     /\ last.kind = "err" => last.val = script[iter]
                ELSE /\ iter = last.iPre
                     /\ last.taken = None
                     /\ last.kind = "ok"

\* C10 witness: advance() succeeded from the queue although the source's
\* next pull would have failed.
C10_Witness ==
    /\ last.op = "advance"
    /\ Len(last.qPre) > 1
    /\ last.kind = "ok"
    /\ iter < Len(script)
    /\ script[iter + 1] < 0

\* C11 as stated: every invocation of the source's next() happens inside
\* try_ensure, for every public operation including advance().
C11_Original ==
    last.calls = last.ensured

\* C11 as amended: every invocation of the source made by a peek operation
\* (peek, peek_mut, peek_n, peek_n_mut, peek_multiple, peek_multiple_mut)
\* happens inside try_ensure; advance()/next() never calls try_ensure and
\* invokes the source directly, once, exactly when the queue is empty.
C11_SourceReads ==
    /\ last.op \in PeekOps \cup WindowOps => last.ensured = last.calls
    /\ last.op = "advance" =>
          /\ last.ensured = 0
          /\ last.calls = IF Len(last.qPre) = 0 THEN 1 ELSE 0
    /\ last.op = "new" => last.calls = 0

\* C11 witness: advance() on an empty queue took an item straight from the
\* source, outside try_ensure, after a peek had pulled through try_ensure.
C11_Witness ==
    /\ last.op = "advance"
    /\ Len(last.qPre) = 0
    /\ last.calls = 1
    /\ last.ensured = 0
    /\ last.taken > 0
    /\ Len(consumed) > 1

\* the responses the source of the resting buffer has not handed out yet
OtherUnread == SubSeq(script, other.iter + 1, Len(script))

\* what peek_n(n) and next() would return on the resting buffer
OtherPeek(n) == get(try_ensure(other.queue, other.iter, wrapping_add(n, 1)).queue, n)

OtherNext == next(other.queue, other.iter).val

\* C12: clone() invokes the source zero times and yields a buffer with an
\* equal queue whose source stands at the same position, leaving the
\* original as it was; afterwards no operation on one of the two buffers
\* changes the other (its queue, its source position, and so all its
\* future results), and each buffer separately keeps the order of the
\* source sequence: on a failure-free source the resting buffer's peeks
\* and its next consuming call still return the items that follow the
\* ones it has consumed itself.
C12_CloneIndependent ==
    /\ last.op = "clone" =>
          /\ last.calls = 0
          /\ last.retQueue = queue
          /\ last.retIter = iter
          /\ other.queue = last.retQueue /\ other.iter = last.retIter
          /\ queue = last.qPre /\ iter = last.iPre /\ consumed = last.cPre
    /\ (other.id # "none" /\ last.op \notin {"clone", "turn"}) =>
          other = last.oPre
    /\ (other.id # "none" /\ FailureFree) =>
          /\ other.consumed \o other.queue \o OtherUnread = script
          /\ consumed \o queue \o Unread = script
          /\ \A n \in 0..MaxPeek : OtherPeek(n) = ItemAt(Len(other.consumed) + n + 1)
          /\ OtherNext = ItemAt(Len(other.consumed) + 1)

\* C12 witness: the clone was made with an item queued, the caller then
\* consumed from the clone past that item, and the original rests with
\* its queue as it was when cloned.
C12_Witness ==
    /\ FailureFree
    /\ other.id = "original"
    /\ last.op = "advance"
    /\ Len(other.queue) > 0
    /\ other.consumed = << >>
    /\ Len(consumed) = 2
    /\ queue = << >>

\* the responses the source returned by destructure() still produces
ReturnedUnread == SubSeq(script, last.retIter + 1, Len(script))

\* C13: destructure() makes no pull and returns the source and the
\* residual queue; on a failure-free source the returned queue front to
\* back followed by what the returned source still produces is exactly
\* the not yet consumed part of the source sequence, in order.
C13_DestructureResidue ==
    last.op = "destructure" =>
        /\ last.calls = 0
        /\ last.kind = "ok"
        /\ last.retQueue = last.qPre
        /\ last.retIter = last.iPre
        /\ consumed = last.cPre
        /\ FailureFree =>
              last.retQueue \o ReturnedUnread
                  = SubSeq(script, Len(consumed) + 1, Len(script))

\* C13 witness: destructure() after consuming calls, with items left in
\* the queue and items left in the source.
C13_Witness ==
    /\ FailureFree
    /\ last.op = "destructure"
    /\ Len(consumed) > 0
    /\ Len(last.retQueue) > 1
    /\ Len(ReturnedUnread) > 0

\* C14 as stated (the SAFETY precondition of unwrap_unchecked): whenever
\* try_ensure(N) has returned Ok in peek_multiple_mut<N>, the queue holds
\* at most N items, so the fill loop never steps past the N-th slot.
C14_FillWithinSlots ==
    (last.op = "peek_multiple_mut" /\ last.kind # "err") =>
        /\ Len(queue) <= last.n
        /\ ~fill(queue, last.n).ub

\* the depth the last peek passed to try_ensure
EnsureArg ==
    IF last.op \in PeekOps THEN wrapping_add(last.n, 1) ELSE last.n

\* the loop bound of that try_ensure call, and the responses it took
Needed == saturating_sub(EnsureArg, Len(last.qPre))

Taken == iter - last.iPre

\* the call before the last one was answered end-of-sequence by the source
EosSignalled ==
    /\ prev.op \in {"peek", "peek_n"}
    /\ prev.kind = "ok"
    /\ prev.val = None
    /\ prev.n < UsizeMax

\* C15 as stated: once the source has signalled end-of-sequence, no later
\* operation invokes the source again.
C15_Original ==
    EosSignalled => last.calls = 0

\* C15 as amended: once the source is exhausted (in particular after it
\* has signalled end-of-sequence) an operation that is satisfied from the
\* queue does not invoke the source, and an operation that needs more than
\* the queue holds (a peek whose depth exceeds the queue length, advance()
\* on an empty queue) invokes the source again, exactly once, is answered
\* end-of-sequence again and leaves the queue as it was.
C15_RequeryAfterEnd ==
    (last.iPre = Len(script) /\ last.kind # "panic") =>
        /\ last.op \in PeekOps \cup WindowOps =>
              /\ last.calls = IF Needed > 0 THEN 1 ELSE 0
              /\ last.kind # "err"
              /\ queue = last.qPre
              /\ iter = last.iPre
        /\ last.op = "advance" =>
              /\ last.calls = IF Len(last.qPre) = 0 THEN 1 ELSE 0
              /\ last.kind = "ok"
              /\ iter = last.iPre
              /\ Len(last.qPre) = 0 => last.taken = None

\* C15 witness: the source had signalled end-of-sequence to a peek_n, and
\* the next peek, needing more than the one queued item, asked it again.
C15_Witness ==
    /\ EosSignalled
    /\ last.op = "peek_multiple"
    /\ last.n = 2
    /\ Len(last.qPre) = 1
    /\ last.calls = 1
    /\ queue = last.qPre

\* C16: every try_ensure(n) call ends within its loop bound: at the first
\* failure (the failing call is its last), at the first end-of-sequence
\* answer (no call follows it), or with the queue filled to n; when it
\* returns Ok with fewer than n items queued, its last source call was
\* answered end-of-sequence.
C16_EnsureStops ==
    (last.op \in PeekOps \cup WindowOps /\ last.kind # "panic") =>
        /\ last.calls <= Needed
        /\ last.kind = "err" =>
              /\ last.calls = Taken
              /\ Taken > 0
              /\ script[iter] < 0
              /\ Len(queue) = Len(last.qPre) + Taken - 1
        /\ (last.kind # "err" /\ Len(queue) >= EnsureArg) =>
              /\ last.calls = Needed
              /\ last.calls = Taken
              /\ Len(queue) = Len(last.qPre) + Taken
        /\ (last.kind # "err" /\ Len(queue) < EnsureArg) =>
              /\ last.calls = Taken + 1
              /\ iter = Len(script)
              /\ Len(queue) = Len(last.qPre) + Taken

\* C16 witness: a peek far deeper than the input (depth 3 on a source of
\* one item) made one call for the item and one answered end-of-sequence.
C16_Witness ==
    /\ last.op = "peek_n"
    /\ last.n = 2
    /\ Len(script) = 1
    /\ last.qPre = << >>
    /\ last.calls = 2
    /\ last.val = None
    /\ Len(queue) = 1

\* C17: the source is not invoked again within the call in which a pull
\* failed, and a repeated call resumes after the preserved prefix: on
\* a0, fail, a1 the first peek_n(1) returns the error after 2 source
\* calls, the second makes exactly one more call, returns a1 and leaves
\* the queue [a0, a1].
C17_RetryResumes ==
    /\ (last.op \in PeekOps \cup WindowOps /\ last.kind = "err") =>
          /\ last.calls = Taken
          /\ last.val = script[iter]
          /\ \A i \in (last.iPre + 1)..(iter - 1) : script[i] > 0
    /\ (A0FailA1 /\ last.op = "peek_n" /\ last.n = 1
          /\ last.iPre = 0 /\ last.qPre = << >>) =>
          /\ last.kind = "err"
          /\ last.calls = 2
    /\ (A0FailA1 /\ prev.op = "peek_n" /\ prev.n = 1 /\ prev.kind = "err"
          /\ last.op = "peek_n" /\ last.n = 1
          /\ last.iPre = 2 /\ last.qPre = <<script[1]>>) =>
          /\ last.kind = "ok"
          /\ last.calls = 1
          /\ last.val = script[3]
          /\ queue = <<script[1], script[3]>>
          /\ iter = 3

\* C17 witness: a0, fail, a1 and the second of two peek_n(1) calls.
C17_Witness ==
    /\ A0FailA1
    /\ consumed = << >>
    /\ prev = [op |-> "peek_n", n |-> 1, kind |-> "err", val |-> script[2]]
    /\ last.op = "peek_n"
    /\ last.n = 1
    /\ last.calls = 1
    /\ last.val = script[3]

\* q is a prefix of r
IsPrefix(q, r) == Len(q) <= Len(r) /\ SubSeq(r, 1, Len(q)) = q

\* C18: no peek operation (peek, peek_n, peek_multiple), whether it
\* succeeds, hits end-of-sequence or fails, removes or reorders buffered
\* elements: the queue before the call is a prefix of the queue after it,
\* and the consumed items are unchanged.
C18_PeekKeepsQueue ==
    last.op \in {"peek", "peek_n", "peek_multiple"} =>
        /\ IsPrefix(last.qPre, queue)
        /\ consumed = last.cPre
        /\ Len(queue) - Len(last.qPre) <= last.calls

\* C18 witness: a failing peek_multiple that had items queued before and
\* queued one more before the failure.
C18_Witness ==
    /\ last.op = "peek_multiple"
    /\ last.kind = "err"
    /\ Len(last.qPre) > 0
    /\ Len(queue) > Len(last.qPre)
    /\ Len(consumed) > 0

\* C19 as stated: for every n, usize::MAX included, peek_n(n) and
\* peek_n_mut(n) request depth n+1 without the addition wrapping to 0 or
\* aborting: the call returns, and when it returns Ok the queue holds n+1
\* items or the source has been read to its end.
C19_NoOverflow ==
    last.op \in {"peek_n", "peek_n_mut"} =>
        /\ last.kind # "panic"
        /\ last.kind = "ok" => (Len(queue) >= last.n + 1 \/ iter = Len(script))
        /\ (last.kind = "ok" /\ last.val = None) => iter = Len(script)

====
